---- MODULE Spec2Model ----
(***************************************************************************)
(* The UDP-to-HTTP DNS proxy of src/main.c as a state machine.             *)
(*                                                                         *)
(* The process is single threaded: libev runs one callback at a time, so   *)
(* every callback (dns_server_cb, https_resp_cb, sigint_cb) is one atomic  *)
(* action.  The state is the heap of request_t blocks, the fetches that    *)
(* are outstanding in the HTTP engine, main's position, and a record `ev`  *)
(* of what the most recent callback was given and what it did.             *)
(***************************************************************************)
EXTENDS Integers, Sequences, FiniteSets, TLC

\* ---------------------------------------------------------------- bounds
\* number of request_t blocks the heap can hold at once
MaxReq == 2
\* number of bytes curl_escape must expand in a query name that has any
MaxEsc == 1
\* largest number of addresses in an upstream body
MaxAddrs == 2
\* largest number of options on the command line
MaxArgs == 2

\* ------------------------------------------------------ program constants
\* "strlen(name) > 253" in dns_server_cb
MaxName == 253
\* char name[254] in request_t
NameField == 254
\* "type != 1" in dns_server_cb: the A record type
TypeA == 1
\* char url[1500] in dns_server_cb
UrlSize == 1500
\* static char buf[200] in main
ExtraSize == 200
\* the length of "http://119.29.29.29/d?dn="
PrefixLen == 25

\* ------------------------------------------------------------ input sets
TxIds == {1, 2}
Addrs == {"c1", "c2"}
\* A and AAAA
Types == {TypeA, 28}
\* A query name is its length and how many of its bytes are not URL-unreserved.
Names == [len : {MaxName, MaxName + 1}, esc : {0, MaxEsc}]
\* The bytes of an upstream body: address i is the single byte AddrByte[i],
\* addresses are separated by ";" and the longest body also comes with a
\* ";" at its end.
AddrByte == <<"1", "2", "3", "4", "5", "6", "7", "8", "9">>
RECURSIVE Join(_)
Join(k) == IF k = 0 THEN <<>>
           ELSE IF k = 1 THEN <<AddrByte[1]>>
           ELSE Join(k - 1) \o <<";", AddrByte[k]>>
Bodies == {Join(k) : k \in 0..MaxAddrs} \cup {Join(MaxAddrs) \o <<";">>}
\* what the HTTP engine passes as (buf, buflen): NULL on failure
NullBuf == [null |-> TRUE, bytes |-> <<>>]
Bufs == {NullBuf} \cup {[null |-> FALSE, bytes |-> b] : b \in Bodies}
\* the byte that follows a body in memory: a terminator or anything else
PastBytes == {";", "x"}
\* return values of text_to_dns: nothing converted, or the message length
ConvResults == {0, 1}

\* The query names of the startup specification: none, some or all of the
\* bytes of the longest name need escaping.
UrlNames == [len : {MaxName}, esc : {0, MaxEsc, MaxName}]

\* The -e arguments and their lengths: a real subnet, and the longest strings
\* around what the 200-byte buffer of main can hold after "&ip=".
Subnets == {"203.31.0.0/16", "S194", "S195"}
SubnetLen(s) ==
  CASE s = "" -> 0
    [] s = "203.31.0.0/16" -> 13
    [] s = "S194" -> ExtraSize - 6
    [] s = "S195" -> ExtraSize - 5

\* One option of the command line: its letter and its argument.
Args ==
  {[o |-> "e", arg |-> sn] : sn \in Subnets}
    \cup {[o |-> "d", arg |-> ""]}
    \cup {[o |-> "u", arg |-> u] : u \in {"ghost", "root"}}
    \cup {[o |-> "g", arg |-> "ghost"]}
    \cup {[o |-> "l", arg |-> f] : f \in {"/var/log/proxy.log", "/nonexistent/proxy.log"}}
    \cup {[o |-> "b", arg |-> "1.1.1.1"]}
Argvs == UNION {[1..n -> Args] : n \in 0..MaxArgs}

\* The accounts of the machine: getpwnam and getgrnam by name.
Account(name) ==
  CASE name = "nobody" -> [found |-> TRUE, id |-> 65534]
    [] name = "root" -> [found |-> TRUE, id |-> 0]
    [] OTHER -> [found |-> FALSE, id |-> 0]

\* open(path, O_CREAT | O_WRONLY | O_APPEND | O_CLOEXEC, ...): the descriptor
open(path) == IF path = "/var/log/proxy.log" THEN 3 ELSE -1

Slots == 1..MaxReq

VARIABLES pc, heap, fetches, ev, dns_server, https_client, argv, opt, app, dns_poller

vars == <<pc, heap, fetches, ev, dns_server, https_client, argv, opt, app, dns_poller>>

\* what only main's startup writes
cfg == <<argv, opt, app, dns_poller>>

\* --------------------------------------------------------------- options.c
options_init ==
  [listen_addr |-> "0.0.0.0", listen_port |-> 5353, edns_client_subnet |-> "",
   logfile |-> "-", logfd |-> -1, daemonize |-> 0, user |-> "nobody",
   group |-> "nobody", uid |-> -1, gid |-> -1,
   bootstrap_dns |-> "8.8.8.8,8.8.4.4,145.100.185.15,145.100.185.16,185.49.141.37,199.58.81.218,80.67.188.188",
   curl_proxy |-> "NULL", use_http_1_1 |-> 0]

\* The option letters of the string given to getopt, "a:p:e:du:g:t:l:vxh".
OptString == {"a", "p", "e", "d", "u", "g", "t", "l", "v", "x", "h"}

\* getopt(argc, argv, "a:p:e:du:g:t:l:vxh") on one option
getopt(a) == IF a.o \in OptString THEN a.o ELSE "?"

\* One round of the switch: the options after it and whether the loop goes on.
Switch(o, c, optarg) ==
  CASE c = "a" -> [opt |-> [o EXCEPT !.listen_addr = optarg], ret |-> 0]
    [] c = "e" -> [opt |-> [o EXCEPT !.edns_client_subnet = optarg], ret |-> 0]
    [] c = "d" -> [opt |-> [o EXCEPT !.daemonize = 1], ret |-> 0]
    [] c = "u" -> [opt |-> [o EXCEPT !.user = optarg], ret |-> 0]
    [] c = "g" -> [opt |-> [o EXCEPT !.group = optarg], ret |-> 0]
    [] c = "b" -> [opt |-> [o EXCEPT !.bootstrap_dns = optarg], ret |-> 0]
    [] c = "t" -> [opt |-> [o EXCEPT !.curl_proxy = optarg], ret |-> 0]
    [] c = "l" -> [opt |-> [o EXCEPT !.logfile = optarg], ret |-> 0]
    [] c = "x" -> [opt |-> [o EXCEPT !.use_http_1_1 = 1], ret |-> 0]
    [] c = "h" -> [opt |-> o, ret |-> -1]
    [] c = "?" -> [opt |-> o, ret |-> -1]
    [] OTHER -> [opt |-> o, ret |-> 0]

\* while ((c = getopt(...)) != -1) switch (c) ...
RECURSIVE ParseLoop(_, _, _)
ParseLoop(o, av, i) ==
  IF i > Len(av) THEN [opt |-> o, ret |-> 0]
  ELSE LET one == Switch(o, getopt(av[i]), av[i].arg)
       IN IF one.ret # 0 THEN one ELSE ParseLoop(one.opt, av, i + 1)

\* Only a missing account is refused.
ValidIdFound(acct) == acct.found

\* An account that is missing or is the superuser's is refused.
ValidId(acct) == ~(~acct.found \/ acct.id = 0)

\* if (opt->daemonize) ...: the user and the group must be valid
Daemonize(o) ==
  IF o.daemonize = 0 THEN [opt |-> o, ret |-> 0]
  ELSE IF ~ValidId(Account(o.user)) THEN [opt |-> o, ret |-> -1]
  ELSE LET o1 == [o EXCEPT !.uid = Account(o.user).id]
       IN IF ~ValidId(Account(o.group)) THEN [opt |-> o1, ret |-> -1]
          ELSE [opt |-> [o1 EXCEPT !.gid = Account(o.group).id], ret |-> 0]

\* if (!strcmp(opt->logfile, "-")) ... else if (open(...) <= 0) printf(...);
\* return 0;
OpenLog(o) ==
  IF o.logfile = "-" THEN [opt |-> [o EXCEPT !.logfd = 1], ret |-> 0]
  ELSE [opt |-> [o EXCEPT !.logfd = open(o.logfile)], ret |-> 0]

options_parse_args(o, av) ==
  LET parsed == ParseLoop(o, av, 1)
  IN IF parsed.ret # 0 THEN parsed
     ELSE LET dropped == Daemonize(parsed.opt)
          IN IF dropped.ret # 0 THEN dropped ELSE OpenLog(dropped.opt)

\* ------------------------------------------------------------------- urls
\* A string is the sequence of its parts, each with its length in bytes.
RECURSIVE Cut(_, _)
Cut(runs, room) ==
  IF runs = <<>> \/ room <= 0 THEN <<>>
  ELSE IF Head(runs).len <= room
    THEN <<Head(runs)>> \o Cut(Tail(runs), room - Head(runs).len)
    ELSE <<[Head(runs) EXCEPT !.len = room]>>

\* snprintf(dst, size, ...): at most size - 1 bytes of the text are kept
snprintf(runs, size) == Cut(runs, size - 1)

RECURSIVE Total(_)
Total(runs) == IF runs = <<>> THEN 0 ELSE Head(runs).len + Total(Tail(runs))

\* "&ip=" appended whether or not a subnet is configured.
ExtraArgsAlways(subnet) ==
  snprintf(<<[part |-> "&ip=", len |-> 4],
             [part |-> subnet, len |-> SubnetLen(subnet)]>>, ExtraSize - 1)

\* app.extra_request_args as main sets it from opt.edns_client_subnet
ExtraArgs(subnet) ==
  IF SubnetLen(subnet) # 0
    THEN snprintf(<<[part |-> "&ip=", len |-> 4],
                    [part |-> subnet, len |-> SubnetLen(subnet)]>>, ExtraSize - 1)
    ELSE <<>>

\* The url built in a buffer of 512 bytes.
BuildUrlSmall(escaped, extra) ==
  snprintf(<<[part |-> "http://119.29.29.29/d?dn=", len |-> PrefixLen],
             [part |-> "escaped_name", len |-> escaped]>> \o extra, 512 - 1)

\* snprintf(url, sizeof(url) - 1, "http://119.29.29.29/d?dn=%s%s", ...)
BuildUrl(escaped, extra) ==
  snprintf(<<[part |-> "http://119.29.29.29/d?dn=", len |-> PrefixLen],
             [part |-> "escaped_name", len |-> escaped]>> \o extra, UrlSize - 1)

\* ------------------------------------------------------------- request_t
\* A heap block that holds no request_t.
FreeBlock == [st |-> "free", tx_id |-> 0, raddr |-> "none", dns_server |-> "none", name |-> 0]

\* calloc(1, sizeof(request_t)): the block it returns, 0 for NULL.
calloc(h) ==
  IF \E c \in Slots : h[c].st = "free"
    THEN CHOOSE c \in Slots : h[c].st = "free" /\ \A d \in Slots : h[d].st = "free" => c <= d
    ELSE 0

\* strlen(name)
strlen(name) == name.len

\* curl_escape(name, strlen(name)): every byte that is not unreserved becomes
\* "%XX"; the result is the length of the escaped string.
curl_escape(name) == (name.len - name.esc) + 3 * name.esc

\* The test with the size of the name field in place of the longest name.
AcceptedOffByOne(type, name) == ~(type # TypeA \/ strlen(name) > NameField)

\* The test of dns_server_cb that lets a query through.
Accepted(type, name) == ~(type # TypeA \/ strlen(name) > MaxName)

\* A request_t whose tx_id is left as calloc zeroed it.
NewReqNoTxId(tx_id, addr, escaped) ==
  [st |-> "alloc", tx_id |-> 0, raddr |-> addr, dns_server |-> "dns_server",
   name |-> escaped]

\* The request_t that dns_server_cb fills in: name is the number of bytes
\* memcpy wrote starting at req->name (the field was zeroed by calloc).
NewReq(tx_id, addr, escaped) ==
  [st |-> "alloc", tx_id |-> tx_id, raddr |-> addr, dns_server |-> "dns_server",
   name |-> escaped]

\* The result of calloc used unchecked.
NullReqUnchecked(c) == FALSE

\* if (!req)
NullReq(c) == c = 0

\* memcpy(req->name, escaped_name, strlen(escaped_name)) writes past the block
Overflows(escaped) == escaped > NameField

\* ------------------------------------------------------------ the record ev
NoEv ==
  [op |-> "none", type |-> 0, namelen |-> 0, buf |-> NullBuf, buflen |-> 0,
   reads |-> {}, handed |-> <<>>, r |-> 0, sent |-> <<>>, q |-> [tx_id |-> 0, addr |-> "none"],
   nalloc |-> 0, nfetch |-> 0, nfree |-> 0, uaf |-> FALSE, dfree |-> FALSE,
   converted |-> FALSE, oom |-> FALSE, returned |-> TRUE]

\* ------------------------------------------------------------ dns_server_cb
dns_server_cb(tx_id, addr, name, type, crash) ==
  /\ pc = "run"
  /\ crash => Accepted(type, name) /\ calloc(heap) # 0 /\ Overflows(curl_escape(name))
  /\ IF ~Accepted(type, name)
       THEN UNCHANGED <<pc, heap, fetches>>
       ELSE LET escaped == curl_escape(name)
                c == calloc(heap)
            IN IF NullReq(c)
                 THEN \* FLOG("Out of mem")
                      /\ pc' = "aborted"
                      /\ UNCHANGED <<heap, fetches>>
                 ELSE /\ heap' = [heap EXCEPT ![c] = NewReq(tx_id, addr, escaped)]
                      /\ IF crash
                           THEN \* the write past the block ends the process
                                /\ pc' = "crashed"
                                /\ UNCHANGED fetches
                           ELSE /\ pc' = pc
                                /\ fetches' = fetches \cup
                                     {[data |-> c, resolv |-> app.resolv,
                                       url |-> BuildUrl(escaped, app.extra_request_args),
                                       q |-> [tx_id |-> tx_id, addr |-> addr],
                                       qname |-> name]}
  /\ ev' = [NoEv EXCEPT
              !.op = "dns_server_cb", !.type = type, !.namelen = strlen(name),
              !.nalloc = Cardinality({c \in Slots : heap[c].st = "free" /\ heap'[c].st = "alloc"}),
              !.nfetch = Cardinality(fetches' \ fetches),
              !.oom = (Accepted(type, name) /\ calloc(heap) = 0),
              !.returned = (pc' = "run")]
  /\ UNCHANGED <<dns_server, https_client, cfg>>

\* ------------------------------------------------------------ https_resp_cb
\* buf[i] for the C index i: past the declared length the byte is whatever
\* follows the body in memory.
At(buf, past, i) == IF i < Len(buf) THEN buf[i + 1] ELSE past

\* for (; ';' != buf[datalen] && datalen < buflen; ++datalen);
\* the result is datalen and the set of indices of buf that were read.
RECURSIVE Scan(_, _, _, _)
Scan(buf, past, datalen, reads) ==
  IF ";" # At(buf, past, datalen) /\ datalen < Len(buf)
    THEN Scan(buf, past, datalen + 1, reads \cup {datalen})
    ELSE [datalen |-> datalen, reads |-> reads \cup {datalen}]

\* bufcpy = name ":" buf[0..datalen)
Bufcpy(req, buf, datalen) == [name |-> req.name, text |-> SubSeq(buf, 1, datalen)]

\* The addresses of a ";"-separated text, in order.
RECURSIVE Addresses(_)
Addresses(text) ==
  IF text = <<>> THEN <<>>
  ELSE IF \E i \in 1..Len(text) : text[i] = ";"
    THEN LET i == CHOOSE j \in 1..Len(text) :
                    text[j] = ";" /\ \A l \in 1..(j - 1) : text[l] # ";"
         IN (IF i = 1 THEN <<>> ELSE <<SubSeq(text, 1, i - 1)>>)
              \o Addresses(SubSeq(text, i + 1, Len(text)))
    ELSE <<text>>

\* text_to_dns(tx_id, bufcpy, obuf, obuf_size): r is its return value, a
\* positive r is the length of the message it wrote.
text_to_dns(tx_id, bufcpy, r) ==
  [r |-> r, id |-> IF r > 0 THEN tx_id ELSE 0,
   answers |-> IF r > 0 THEN Addresses(bufcpy.text) ELSE <<>>]

\* dns_server_respond(req->dns_server, req->raddr, obuf, r): the datagram,
\* and whether the socket took it (the callback is not told).
Reply(req, msg, sendok) ==
  [to |-> req.raddr, id |-> msg.id, answers |-> msg.answers, delivered |-> sendok]

\* https_resp_cb releasing req before it sends the reply.
ReqOpsFreeFirst(isnull, memok, r) ==
  IF isnull THEN <<>>
  ELSE <<"read">> \o
       (IF ~memok THEN <<"abort">>
        ELSE <<"read", "convert", "free">> \o (IF r <= 0 THEN <<>> ELSE <<"respond">>))

\* https_resp_cb without the test of buf against NULL.
ReqOpsNoNullCheck(isnull, memok, r) ==
  <<"read">> \o
  (IF ~memok THEN <<"abort">>
   ELSE <<"read", "convert">> \o (IF r <= 0 THEN <<>> ELSE <<"respond">>) \o <<"free">>)

\* https_resp_cb returning as soon as text_to_dns fails.
ReqOpsReturnOnError(isnull, memok, r) ==
  IF isnull THEN <<>>
  ELSE <<"read">> \o
       (IF ~memok THEN <<"abort">>
        ELSE <<"read", "convert">> \o (IF r <= 0 THEN <<>> ELSE <<"respond", "free">>))

\* What https_resp_cb does with req, in order: "read" a field of *req,
\* "convert" (text_to_dns, which is given req->tx_id), "respond" (which reads
\* req->dns_server and req->raddr), "free" it, or "abort" the process in
\* FLOG when bufcpy cannot be allocated.
ReqOps(isnull, memok, r) ==
  IF isnull THEN <<>>
  ELSE <<"read">> \o
       (IF ~memok THEN <<"abort">>
        ELSE <<"read", "convert">> \o (IF r <= 0 THEN <<>> ELSE <<"respond">>) \o <<"free">>)

\* The block was released before step i of ops.
FreedBefore(blk, ops, i) == blk.st # "alloc" \/ \E j \in 1..(i - 1) : ops[j] = "free"
Uaf(blk, ops) ==
  \E i \in 1..Len(ops) : ops[i] \in {"read", "convert", "respond"} /\ FreedBefore(blk, ops, i)
Dfree(blk, ops) == \E i \in 1..Len(ops) : ops[i] = "free" /\ FreedBefore(blk, ops, i)
Count(ops, what) == Cardinality({i \in 1..Len(ops) : ops[i] = what})

https_resp_cb(f, buf, memok, r, sendok) ==
  /\ pc = "run"
  /\ f \in fetches
  /\ ~memok => r = 0 /\ ~buf.null
  /\ ~sendok => r > 0 /\ ~buf.null
  /\ \E scan \in {Scan(buf.bytes, past, 0, {}) : past \in PastBytes} :
     LET req == heap[f.data]
         bufcpy == Bufcpy(req, buf.bytes, scan.datalen)
         msg == text_to_dns(req.tx_id, bufcpy, r)
         ops == ReqOps(buf.null, memok, r)
     IN /\ fetches' = fetches \ {f}
        /\ heap' = IF Count(ops, "free") > 0 THEN [heap EXCEPT ![f.data] = FreeBlock]
                   ELSE heap
        /\ pc' = IF Count(ops, "abort") > 0 THEN "aborted" ELSE pc
        /\ ev' = [NoEv EXCEPT
                    !.op = "https_resp_cb", !.buf = buf, !.buflen = Len(buf.bytes),
                    !.reads = IF buf.null THEN {} ELSE scan.reads,
                    !.converted = Count(ops, "convert") > 0,
                    !.handed = IF Count(ops, "convert") > 0 THEN bufcpy.text ELSE <<>>,
                    !.r = IF Count(ops, "convert") > 0 THEN r ELSE 0, !.q = f.q,
                    !.sent = [i \in 1..Count(ops, "respond") |-> Reply(req, msg, sendok)],
                    !.nfree = Count(ops, "free"),
                    !.uaf = Uaf(req, ops), !.dfree = Dfree(req, ops),
                    !.returned = Count(ops, "abort") = 0]
  /\ UNCHANGED <<dns_server, https_client, cfg>>

\* ------------------------------------------------------------------- main
\* SIGINT: ev_break(loop, EVBREAK_ALL), ev_run returns.
sigint_cb ==
  /\ pc = "run"
  /\ pc' = "stopped"
  /\ ev' = [NoEv EXCEPT !.op = "sigint_cb"]
  /\ UNCHANGED <<heap, fetches, dns_server, https_client, cfg>>

\* curl_slist_free_all; ev_signal_stop; dns_server_cleanup(&dns_server)
main_dns_server_cleanup ==
  /\ pc = "stopped"
  /\ pc' = "server_cleaned"
  /\ dns_server' = "cleaned"
  /\ UNCHANGED <<heap, fetches, ev, https_client, cfg>>

\* The blocks left after every fetch in fs has been completed with the
\* failure signal.
RECURSIVE FailAll(_, _)
FailAll(h, fs) ==
  IF fs = {} THEN h
  ELSE LET f == CHOOSE g \in fs : TRUE
           ops == ReqOps(TRUE, TRUE, 0)
       IN FailAll(IF Count(ops, "free") > 0 THEN [h EXCEPT ![f.data] = FreeBlock] ELSE h,
                  fs \ {f})

\* https_client_cleanup(&https_client): the engine fails what is outstanding
main_https_client_cleanup ==
  /\ pc = "server_cleaned"
  /\ pc' = "client_cleaned"
  /\ https_client' = "cleaned"
  /\ heap' = FailAll(heap, fetches)
  /\ fetches' = {}
  /\ UNCHANGED <<ev, dns_server, cfg>>

\* ev_loop_destroy ... return EXIT_SUCCESS
main_exit ==
  /\ pc = "client_cleaned"
  /\ pc' = "exit"
  /\ UNCHANGED <<heap, fetches, ev, dns_server, https_client, cfg>>

\* if (options_parse_args(&opt, argc, argv)) { options_show_usage; exit(1); }
main_options ==
  /\ pc = "start"
  /\ LET res == options_parse_args(opt, argv)
     IN /\ opt' = res.opt
        /\ pc' = IF res.ret # 0 THEN "usage_exit" ELSE "parsed"
  /\ UNCHANGED <<heap, fetches, ev, dns_server, https_client, argv, app, dns_poller>>

\* logging_init ... logging_flush_init: the engine, app, the UDP server, the
\* drop of privileges (FLOG when setgid or setuid fails) and the signals.
\* dns_poller is declared and left alone.
main_setup(privok) ==
  /\ pc = "parsed"
  /\ ~privok => opt.daemonize # 0
  /\ https_client' = "init"
  /\ app' = [resolv |-> <<>>, extra_request_args |-> ExtraArgs(opt.edns_client_subnet)]
  /\ dns_server' = "init"
  /\ pc' = IF privok THEN "run" ELSE "aborted"
  /\ UNCHANGED <<heap, fetches, ev, argv, opt, dns_poller>>

\* main has called options_init; the command line is empty
Init ==
  /\ pc = "start"
  /\ heap = [c \in Slots |-> FreeBlock]
  /\ fetches = {}
  /\ ev = NoEv
  /\ dns_server = "none"
  /\ https_client = "none"
  /\ argv = <<>>
  /\ opt = options_init
  /\ app = [resolv |-> <<>>, extra_request_args |-> <<>>]
  /\ dns_poller = "uninit"

Next ==
  \/ main_options
  \/ \E privok \in BOOLEAN : main_setup(privok)
  \/ \E tx_id \in TxIds, addr \in Addrs, name \in Names, type \in Types, crash \in BOOLEAN :
       dns_server_cb(tx_id, addr, name, type, crash)
  \/ \E f \in fetches, buf \in Bufs, memok \in BOOLEAN, r \in ConvResults, sendok \in BOOLEAN :
       https_resp_cb(f, buf, memok, r, sendok)
  \/ sigint_cb
  \/ main_dns_server_cleanup
  \/ main_https_client_cleanup
  \/ main_exit

Spec == Init /\ [][Next]_vars

\* Startup from any command line, then queries for the longest names.
InitStart ==
  /\ pc = "start"
  /\ heap = [c \in Slots |-> FreeBlock]
  /\ fetches = {}
  /\ ev = NoEv
  /\ dns_server = "none"
  /\ https_client = "none"
  /\ argv \in Argvs
  /\ opt = options_init
  /\ app = [resolv |-> <<>>, extra_request_args |-> <<>>]
  /\ dns_poller = "uninit"

NextStart ==
  \/ main_options
  \/ \E privok \in BOOLEAN : main_setup(privok)
  \/ \E name \in UrlNames, crash \in BOOLEAN : dns_server_cb(1, "c1", name, TypeA, crash)

SpecStart == InitStart /\ [][NextStart]_vars

\* ------------------------------------------------------------------ claims
Completed == ev.op = "https_resp_cb"

\* C1: when https_resp_cb returns, the request_t of its fetch has been
\* released exactly once, whether buf was a body or NULL, and no request_t
\* is left allocated without a fetch that owns it.
C1_ReleasedOnReturn ==
  /\ (Completed /\ ev.returned) => (ev.nfree = 1 /\ ~ev.dfree)
  /\ pc = "run" =>
       \A c \in Slots : heap[c].st = "alloc" => \E f \in fetches : f.data = c

\* C2: every reply carries the transaction id of, and goes to the client
\* address of, the query whose fetch completion produced it.
C2_ReplyMatchesQuery ==
  Completed =>
    \A i \in DOMAIN ev.sent : ev.sent[i].id = ev.q.tx_id /\ ev.sent[i].to = ev.q.addr

\* a reply was sent while a query with another id and another address was
\* still outstanding
C2_Witness ==
  /\ Completed
  /\ ev.sent # <<>>
  /\ \E f \in fetches : f.q.tx_id # ev.q.tx_id /\ f.q.addr # ev.q.addr

\* C3: a query whose type is not A or whose name is longer than 253 bytes
\* causes no allocation, no fetch and no reply.
C3_Dropped ==
  (ev.op = "dns_server_cb" /\ (ev.type # TypeA \/ ev.namelen > MaxName)) =>
    (ev.nalloc = 0 /\ ev.nfetch = 0 /\ ev.sent = <<>>)

\* a type A query with a 254-byte name was delivered while a fetch was outstanding
C3_Witness ==
  /\ ev.op = "dns_server_cb"
  /\ ev.type = TypeA
  /\ ev.namelen > MaxName
  /\ fetches # {}

\* C4: no request_t is released twice or used after its release, and every
\* outstanding fetch owns an allocated request_t that no other fetch owns.
C4_SingleOwner ==
  /\ ~ev.uaf
  /\ ~ev.dfree
  /\ ev.nfree <= 1
  /\ \A f \in fetches : heap[f.data].st = "alloc"
  /\ \A f, g \in fetches : f.data = g.data => f = g

\* a request_t was released after its reply while another fetch was outstanding
C4_Witness ==
  /\ Completed
  /\ ev.nfree = 1
  /\ Len(ev.sent) = 1
  /\ fetches # {}

\* C5: a fetch that completes with NULL sends no reply.
C5_NoReplyOnFailure == (Completed /\ ev.buf.null) => ev.sent = <<>>

\* a fetch completed with NULL
C5_Witness == Completed /\ ev.buf.null

\* C6: once text_to_dns has been called the process keeps running and the
\* request_t is released, after the send if there is one and whether or not
\* the socket took the datagram; a result <= 0 sends nothing and a result > 0
\* sends exactly one reply.
C6_ConvertThenRelease ==
  (Completed /\ ev.converted) =>
    /\ pc = "run"
    /\ ev.returned
    /\ ev.nfree = 1
    /\ ~ev.uaf
    /\ ev.r <= 0 => ev.sent = <<>>
    /\ ev.r > 0 => Len(ev.sent) = 1

\* text_to_dns failed on a body and the request_t was released
C6_Witness ==
  /\ Completed
  /\ ev.converted
  /\ ev.r <= 0
  /\ ev.buf.bytes # <<>>
  /\ ev.nfree = 1

\* C7: the scan for the first ';' reads no byte of buf at an index >= buflen.
C7_NoReadPastLength ==
  (Completed /\ ~ev.buf.null) => \A i \in ev.reads : i < ev.buflen

\* C8: the name stored in a request_t is at most 253 bytes, so that it fits
\* the 254-byte field with its terminator.
C8_NameFits ==
  \A c \in Slots : heap[c].st = "alloc" =>
    (heap[c].name <= MaxName /\ heap[c].name + 1 <= NameField)

\* C9: every address of a body with at least one address is handed to
\* text_to_dns, in order, and a reply carries one answer for each.
C9_AllAddresses ==
  (Completed /\ ev.converted /\ Len(Addresses(ev.buf.bytes)) >= 1) =>
    /\ Addresses(ev.handed) = Addresses(ev.buf.bytes)
    /\ \A i \in DOMAIN ev.sent : ev.sent[i].answers = Addresses(ev.buf.bytes)

\* C10: the UDP server is released only after the HTTP engine has been torn
\* down and no fetch is outstanding.
C10_EngineBeforeServer ==
  dns_server = "cleaned" => (https_client = "cleaned" /\ fetches = {})

\* C11: after the HTTP engine has been torn down no request_t is left
\* allocated: what was outstanding at shutdown was released by the teardown.
C11_ReleasedAtShutdown ==
  pc \in {"client_cleaned", "exit"} => \A c \in Slots : heap[c].st = "free"

\* C12: the pinned address set passed to a fetch is a successful bootstrap
\* resolution of the upstream host, never the empty set.
C12_PinnedIsResolved ==
  \A f \in fetches : f.resolv # <<>> /\ f.resolv = app.resolv

\* C13: the bootstrap poller is started before the loop runs, and no fetch is
\* issued while no resolution has succeeded.
C13_ResolvedBeforeFetch ==
  /\ pc = "run" => dns_poller # "uninit"
  /\ (ev.op = "dns_server_cb" /\ ev.nfetch > 0) => app.resolv # <<>>

\* the url the claims expect for a query name and a subnet of n bytes
ExpectedUrl(name, subnet, n) ==
  <<[part |-> "http://119.29.29.29/d?dn=", len |-> 25],
    [part |-> "escaped_name", len |-> (name.len - name.esc) + 3 * name.esc]>>
  \o (IF subnet = "" THEN <<>>
      ELSE <<[part |-> "&ip=", len |-> 4], [part |-> subnet, len |-> n]>>)

\* C14 as claimed: the url is <path>?dn=<escaped name>, followed by
\* &ip=<subnet> exactly when a subnet is configured.
C14_UrlForm ==
  \A f \in fetches :
    f.url = ExpectedUrl(f.qname, opt.edns_client_subnet, SubnetLen(opt.edns_client_subnet))

\* C14: as claimed for a subnet of at most 194 bytes; of a longer subnet the
\* url carries the first 194 bytes.
C14_UrlFormUpTo194 ==
  \A f \in fetches :
    LET n == SubnetLen(opt.edns_client_subnet)
    IN f.url = ExpectedUrl(f.qname, opt.edns_client_subnet, IF n <= 194 THEN n ELSE 194)

\* a fetch was issued with a subnet configured
C14_Witness ==
  \E f \in fetches : opt.edns_client_subnet = "203.31.0.0/16" /\ f.qname.esc = MaxEsc

\* C15: a log file that cannot be opened ends the startup.
C15_LogFailureIsFatal ==
  (pc # "start" /\ opt.logfile # "-" /\ opt.logfd <= 0) => pc = "usage_exit"

\* C16: with -d, a user or group that is missing or has id 0 ends the startup
\* before the HTTP engine and the UDP server exist.
C16_BadAccountIsFatal ==
  (/\ pc # "start"
   /\ opt.daemonize # 0
   /\ \E n \in {opt.user, opt.group} : ~Account(n).found \/ Account(n).id = 0)
  => (pc = "usage_exit" /\ https_client = "none" /\ dns_server = "none")

\* -d with the superuser as user ended the startup
C16_Witness ==
  pc = "usage_exit" /\ opt.daemonize # 0 /\ opt.user = "root" /\ opt.group = "nobody"

\* C17: when calloc returns NULL dns_server_cb ends the process and issues
\* no fetch.
C17_OomAborts ==
  (ev.op = "dns_server_cb" /\ ev.oom) =>
    (pc = "aborted" /\ ~ev.returned /\ ev.nalloc = 0 /\ ev.nfetch = 0)

\* an accepted query found the heap full
C17_Witness == ev.op = "dns_server_cb" /\ ev.oom /\ fetches # {}

C19_BootstrapOption ==
  (pc # "start" /\ argv # <<>> /\ \A i \in DOMAIN argv : argv[i].o = "b") =>
    (pc # "usage_exit" /\ opt.bootstrap_dns = argv[Len(argv)].arg)

\* C20: the url of a fetch is the whole of prefix, escaped name and extra
\* arguments, and is within what snprintf may write into url[1500].
C20_UrlNotTruncated ==
  \A f \in fetches :
    LET full == 25 + ((f.qname.len - f.qname.esc) + 3 * f.qname.esc)
                  + Total(app.extra_request_args)
    IN Total(f.url) = full /\ full <= 1500 - 2

\* a fetch for a 253-byte name of which every byte is escaped, with extra
\* arguments that fill the buffer of main
C20_Witness ==
  \E f \in fetches :
    f.qname.len = MaxName /\ f.qname.esc = MaxName /\ Total(app.extra_request_args) = 198
====
